---------------------------- MODULE Spec2Model ----------------------------
(***************************************************************************)
(* netinject: a rule manager (src/src/lib.rs) over an idempotency shim     *)
(* (src/src/iptables_helpers.rs) over the iptables engine.                 *)
(*                                                                         *)
(* The state is the filter table of one address family (the family the     *)
(* handles are opened for; a handle of the other family addresses a        *)
(* disjoint table through the same code), the number of live manager       *)
(* handles, and a record of the last call made and the table before it.    *)
(***************************************************************************)
EXTENDS Integers, Sequences, FiniteSets, TLC

VARIABLES
    fw,     \* the filter table: [exists: set of user chains, rules: chain -> Seq(rule text)]
    mgrs,   \* number of live Netinject values (handles returned by Netinject::new)
    last,   \* the last call: [op, arg, res, calls, fault]
    pre     \* the filter table before the last call

vars == <<fw, mgrs, last, pre>>

----------------------------------------------------------------------------
(* Bounds of the model. *)

\* how many Netinject values are alive at once
MaxMgrs == 2

\* ports the identifiers are drawn from (u16 values)
Ports == {5555}

\* the largest port: Ident.port is a u16
MaxPort == 65535

\* pairs of identifiers take their ports from 0..MaxPairPort and from a few
\* ports whose decimal texts are prefixes or neighbours of one another
MaxPairPort == 12
PairPorts == (0..MaxPairPort) \cup {55, 555, 5555, 5556, 6553, 65535}

----------------------------------------------------------------------------
(* Data model: lib.rs 18-52 *)

Protocol == {"TCP", "UDP"}
Direction == {"Inbound", "Outbound"}
Ident == [protocol : Protocol, port : Ports, direction : Direction]

\* every value of the Ident struct
IdentU16 == [protocol : Protocol, port : 0..MaxPort, direction : Direction]

\* the values of the Ident struct that pairs are drawn from
IdentPair == [protocol : Protocol, port : PairPorts, direction : Direction]

FILTER_TABLE == "filter"
FILTER_INPUT_CHAIN == "INPUT"
FILTER_OUTPUT_CHAIN == "OUTPUT"
NETINJECT_INPUT_CHAIN == "NETINJECT_INPUT"
NETINJECT_OUTPUT_CHAIN == "NETINJECT_OUTPUT"
IPV4 == FALSE

BuiltinChains == {FILTER_INPUT_CHAIN, FILTER_OUTPUT_CHAIN}
ManagedChains == {NETINJECT_INPUT_CHAIN, NETINJECT_OUTPUT_CHAIN}
ChainNames == BuiltinChains \cup ManagedChains

\* u16::to_string: the decimal digits, most significant first, no padding
Digit == <<"0", "1", "2", "3", "4", "5", "6", "7", "8", "9">>
RECURSIVE to_string(_)
to_string(n) ==
    IF n < 10 THEN Digit[n + 1] ELSE to_string(n \div 10) \o Digit[(n % 10) + 1]

\* Variant of Ident::rule that prints the protocol by its variant name.
rule_variant_name(ident) ==
    "-p " \o ident.protocol \o " --dport " \o to_string(ident.port) \o " -j DROP"

\* Variant of Ident::rule that leaves the protocol out.
rule_without_protocol(ident) ==
    "--dport " \o to_string(ident.port) \o " -j DROP"

\* Ident::rule
rule(ident) ==
    LET protocol == IF ident.protocol = "TCP" THEN "tcp" ELSE "udp"
    IN  "-p " \o protocol \o " --dport " \o to_string(ident.port) \o " -j DROP"

\* Variant of Ident::chain that ignores the direction; directional isolation
\* does not hold of it.
chain_ignores_direction(ident) == NETINJECT_INPUT_CHAIN

\* Ident::chain
chain(ident) ==
    IF ident.direction = "Inbound" THEN NETINJECT_INPUT_CHAIN
                                   ELSE NETINJECT_OUTPUT_CHAIN

\* format!("-j {}", chain): the jump rule that hooks a chain
JumpRule(c) == "-j " \o c

HookIn == JumpRule(NETINJECT_INPUT_CHAIN)
HookOut == JumpRule(NETINJECT_OUTPUT_CHAIN)

----------------------------------------------------------------------------
(* Results: IPTResult<()> and NetinjectResult *)

Ok == [kind |-> "Ok", code |-> 0, msg |-> ""]
BadExitStatus(n) == [kind |-> "BadExitStatus", code |-> n, msg |-> ""]
Other(m) == [kind |-> "Other", code |-> 0, msg |-> m]
PermissionDenied == [kind |-> "PermissionDenied", code |-> 0, msg |-> ""]
RULE_EXISTS == "the rule exists in the table/chain"

\* NetinjectError::IPTError(e): the cause is kept
IPTError(e) == [kind |-> "IPTError", code |-> e.code, msg |-> e.msg, cause |-> e.kind]

\* What the environment can make one engine call do besides its own answer:
\* nothing, or a failure unrelated to the state of the chains (exit status 4:
\* no privilege / resource problem; exit status 3: version problem).
NoFault == Ok
EngineFaults == {BadExitStatus(4), BadExitStatus(3)}
Faults == {NoFault} \cup EngineFaults

----------------------------------------------------------------------------
(* The engine: iptables, as the calls of this repository see it.  Every     *)
(* operator takes the table and returns [fw, res]; a failing call changes   *)
(* nothing.                                                                 *)

IsChain(t, c) == c \in BuiltinChains \/ c \in t.exists

\* the user chain a rule jumps to, "" when its target is no user chain
TargetChain(r) ==
    IF \E c \in ManagedChains : r = JumpRule(c)
    THEN CHOOSE c \in ManagedChains : r = JumpRule(c)
    ELSE ""

Occurrences(s, r) == Cardinality({i \in 1..Len(s) : s[i] = r})

\* rules in any chain whose target is c
References(t, c) ==
    LET Refs(d) == Occurrences(t.rules[d], JumpRule(c))
    IN  Refs(FILTER_INPUT_CHAIN) + Refs(FILTER_OUTPUT_CHAIN)
        + Refs(NETINJECT_INPUT_CHAIN) + Refs(NETINJECT_OUTPUT_CHAIN)

\* s without its first element equal to r
RemoveFirst(s, r) ==
    LET i == CHOOSE k \in 1..Len(s) : s[k] = r /\ \A j \in 1..(k - 1) : s[j] # r
    IN  [k \in 1..(Len(s) - 1) |-> IF k < i THEN s[k] ELSE s[k + 1]]

Fail(t, e) == [fw |-> t, res |-> e]
Done(t) == [fw |-> t, res |-> Ok]

\* iptables -N chain: exit status 1 when the chain exists
ipt_new_chain(t, table, c, ft) ==
    IF ft # NoFault THEN Fail(t, ft)
    ELSE IF IsChain(t, c) THEN Fail(t, BadExitStatus(1))
    ELSE Done([t EXCEPT !.exists = @ \cup {c}, !.rules[c] = <<>>])

\* iptables -C chain rule
ipt_exists(t, table, c, r) == IsChain(t, c) /\ Occurrences(t.rules[c], r) > 0

\* chain_exists
ipt_chain_exists(t, table, c) == IsChain(t, c)

\* append_unique of the engine: refuses a rule that exists, else iptables -A;
\* -A fails with exit status 2 when the jump target cannot be loaded and with
\* exit status 1 when the chain does not exist
ipt_append_unique(t, table, c, r, ft) ==
    IF ft # NoFault THEN Fail(t, ft)
    ELSE IF ipt_exists(t, table, c, r) THEN Fail(t, Other(RULE_EXISTS))
    ELSE IF TargetChain(r) # "" /\ ~IsChain(t, TargetChain(r)) THEN Fail(t, BadExitStatus(2))
    ELSE IF ~IsChain(t, c) THEN Fail(t, BadExitStatus(1))
    ELSE Done([t EXCEPT !.rules[c] = Append(@, r)])

\* iptables -D chain rule: exit status 2 when the jump target does not exist,
\* exit status 1 when the chain or a matching rule does not; removes the first match
ipt_delete(t, table, c, r, ft) ==
    IF ft # NoFault THEN Fail(t, ft)
    ELSE IF TargetChain(r) # "" /\ ~IsChain(t, TargetChain(r)) THEN Fail(t, BadExitStatus(2))
    ELSE IF ~ipt_exists(t, table, c, r) THEN Fail(t, BadExitStatus(1))
    ELSE Done([t EXCEPT !.rules[c] = RemoveFirst(@, r)])

\* Variant of iptables -X that removes an empty chain whatever still jumps to
\* it.
ipt_delete_chain_unreferenced(t, table, c, ft) ==
    IF ft # NoFault THEN Fail(t, ft)
    ELSE IF c \notin t.exists THEN Fail(t, BadExitStatus(1))
    ELSE IF Len(t.rules[c]) > 0 THEN Fail(t, BadExitStatus(1))
    ELSE Done([t EXCEPT !.exists = @ \ {c}])

\* iptables -X chain: exit status 1 when the chain does not exist, is built in,
\* is still referenced by a rule, or still holds rules
ipt_delete_chain(t, table, c, ft) ==
    IF ft # NoFault THEN Fail(t, ft)
    ELSE IF c \notin t.exists THEN Fail(t, BadExitStatus(1))
    ELSE IF References(t, c) > 0 THEN Fail(t, BadExitStatus(1))
    ELSE IF Len(t.rules[c]) > 0 THEN Fail(t, BadExitStatus(1))
    ELSE Done([t EXCEPT !.exists = @ \ {c}])

\* iptables -F chain: exit status 1 when the chain does not exist
ipt_flush_chain(t, table, c, ft) ==
    IF ft # NoFault THEN Fail(t, ft)
    ELSE IF ~IsChain(t, c) THEN Fail(t, BadExitStatus(1))
    ELSE Done([t EXCEPT !.rules[c] = <<>>])

\* iptables::new(is_ipv6): acquires the handle; touches no chain
iptables_new(t, is_ipv6, ft) ==
    IF ft # NoFault THEN Fail(t, ft) ELSE Done(t)

----------------------------------------------------------------------------
(* The idempotency shim: iptables_helpers.rs 7-52.  One engine call each;   *)
(* the listed failures become success, everything else is returned as is.   *)

\* Variants of the shim that absorb less than the code does; the idempotency
\* properties below do not hold of them.
new_chain_strict(t, table, c, ft) == ipt_new_chain(t, table, c, ft)

append_unique_strict(t, table, c, r0, ft) == ipt_append_unique(t, table, c, r0, ft)

delete_one_sentinel(t, table, c, r0, ft) ==
    LET r == ipt_delete(t, table, c, r0, ft)
    IN  IF r.res = BadExitStatus(1) THEN Done(r.fw) ELSE r

delete_chain_strict(t, table, c, ft) == ipt_delete_chain(t, table, c, ft)

\* Variant of append_unique that takes every exit status for "already there".
append_unique_lenient(t, table, c, r0, ft) ==
    LET r == ipt_append_unique(t, table, c, r0, ft)
    IN  IF r.res.kind = "BadExitStatus" \/ r.res = Other(RULE_EXISTS)
        THEN Done(r.fw) ELSE r

new_chain(t, table, c, ft) ==
    LET r == ipt_new_chain(t, table, c, ft)
    IN  IF r.res = Ok THEN r
        ELSE IF r.res = BadExitStatus(1) THEN Done(r.fw)
        ELSE r

append_unique(t, table, c, r0, ft) ==
    LET r == ipt_append_unique(t, table, c, r0, ft)
    IN  IF r.res = Ok THEN r
        ELSE IF r.res = Other(RULE_EXISTS) THEN Done(r.fw)
        ELSE r

delete(t, table, c, r0, ft) ==
    LET r == ipt_delete(t, table, c, r0, ft)
    IN  IF r.res = Ok THEN r
        ELSE IF r.res = BadExitStatus(1) THEN Done(r.fw)
        ELSE IF r.res = BadExitStatus(2) THEN Done(r.fw)
        ELSE r

delete_chain(t, table, c, ft) ==
    LET r == ipt_delete_chain(t, table, c, ft)
    IN  IF r.res = Ok THEN r
        ELSE IF r.res = BadExitStatus(1) THEN Done(r.fw)
        ELSE r

----------------------------------------------------------------------------
(* error.rs 11-16 *)

\* Variant that never reclassifies: every failure stays an opaque engine error.
ipt_to_netinject_err_opaque(err) == IPTError(err)

ipt_to_netinject_err(err) ==
    IF err = BadExitStatus(4) THEN PermissionDenied ELSE IPTError(err)

\* .map_err(ipt_to_netinject_err)
map_err(r) == [r EXCEPT !.res = IF @ = Ok THEN Ok ELSE ipt_to_netinject_err(@)]

----------------------------------------------------------------------------
(* The rule manager: lib.rs 76-144.  An operation is a run of engine calls   *)
(* that stops at the first failure (the ? operator).  A run is               *)
(* [fw, res, calls]: the table, the result so far, the calls issued.         *)
(* A fault plan [at, err] makes the call issued at position `at` fail.       *)

Start(t) == [fw |-> t, res |-> Ok, calls |-> <<>>]

\* Variant of the ? operator that goes on after a failure and keeps the first
\* error.
Try_goes_on(s, c, r) ==
    [fw |-> r.fw, res |-> IF s.res # Ok THEN s.res ELSE r.res,
     calls |-> Append(s.calls, c)]

\* one more call `c` with outcome r, unless the run has failed already
Try(s, c, r) ==
    IF s.res # Ok THEN s
    ELSE [fw |-> r.fw, res |-> r.res, calls |-> Append(s.calls, c)]

FaultAt(f, s) == IF f.at = Len(s.calls) + 1 THEN f.err ELSE NoFault

NoPlan == [at |-> 0, err |-> NoFault]

FaultPlans(n) ==
    {NoPlan} \cup [at : 1..n, err : EngineFaults]

\* Netinject::new
Netinject_new(t, is_ipv6, f) ==
    LET s0 == Start(t)
        s1 == Try(s0, <<"new">>,
                  map_err(iptables_new(s0.fw, is_ipv6, FaultAt(f, s0))))
        s2 == Try(s1, <<"new_chain", NETINJECT_INPUT_CHAIN>>,
                  map_err(new_chain(s1.fw, FILTER_TABLE, NETINJECT_INPUT_CHAIN,
                                    FaultAt(f, s1))))
        s3 == Try(s2, <<"append_unique", FILTER_INPUT_CHAIN, HookIn>>,
                  map_err(append_unique(s2.fw, FILTER_TABLE, FILTER_INPUT_CHAIN,
                                        JumpRule(NETINJECT_INPUT_CHAIN), FaultAt(f, s2))))
        s4 == Try(s3, <<"new_chain", NETINJECT_OUTPUT_CHAIN>>,
                  map_err(new_chain(s3.fw, FILTER_TABLE, NETINJECT_OUTPUT_CHAIN,
                                    FaultAt(f, s3))))
        s5 == Try(s4, <<"append_unique", FILTER_OUTPUT_CHAIN, HookOut>>,
                  map_err(append_unique(s4.fw, FILTER_TABLE, FILTER_OUTPUT_CHAIN,
                                        JumpRule(NETINJECT_OUTPUT_CHAIN), FaultAt(f, s4))))
    IN  s5

\* Variants of the rule operations: create through the shim (a duplicate is
\* then reported as success), delete by flushing the chain, delete_all that
\* stops after the inbound chain.
Netinject_create_shim(t, ident, f) ==
    LET s0 == Start(t)
    IN  Try(s0, <<"append_unique", chain(ident), rule(ident)>>,
            append_unique(s0.fw, FILTER_TABLE, chain(ident), rule(ident),
                          FaultAt(f, s0)))

Netinject_delete_flush(t, ident, f) ==
    LET s0 == Start(t)
    IN  Try(s0, <<"flush_chain", chain(ident)>>,
            IF ipt_exists(s0.fw, FILTER_TABLE, chain(ident), rule(ident))
            THEN ipt_flush_chain(s0.fw, FILTER_TABLE, chain(ident), FaultAt(f, s0))
            ELSE ipt_delete(s0.fw, FILTER_TABLE, chain(ident), rule(ident),
                            FaultAt(f, s0)))

Netinject_delete_all_inbound(t, f) ==
    LET s0 == Start(t)
    IN  Try(s0, <<"flush_chain", NETINJECT_INPUT_CHAIN>>,
            ipt_flush_chain(s0.fw, FILTER_TABLE, NETINJECT_INPUT_CHAIN,
                            FaultAt(f, s0)))

\* Variant of create that makes sure of its chain first.
Netinject_create_ensures_chain(t, ident, f) ==
    LET s0 == Start(t)
        s1 == Try(s0, <<"new_chain", chain(ident)>>,
                  new_chain(s0.fw, FILTER_TABLE, chain(ident), FaultAt(f, s0)))
    IN  Try(s1, <<"append_unique", chain(ident), rule(ident)>>,
            ipt_append_unique(s1.fw, FILTER_TABLE, chain(ident), rule(ident),
                              FaultAt(f, s1)))

\* Netinject::create: the engine's append_unique, not the shim's
Netinject_create(t, ident, f) ==
    LET s0 == Start(t)
    IN  Try(s0, <<"append_unique", chain(ident), rule(ident)>>,
            ipt_append_unique(s0.fw, FILTER_TABLE, chain(ident), rule(ident),
                              FaultAt(f, s0)))

\* Netinject::delete: the engine's delete, not the shim's
Netinject_delete(t, ident, f) ==
    LET s0 == Start(t)
    IN  Try(s0, <<"delete", chain(ident), rule(ident)>>,
            ipt_delete(s0.fw, FILTER_TABLE, chain(ident), rule(ident), FaultAt(f, s0)))

\* Netinject::delete_all
Netinject_delete_all(t, f) ==
    LET s0 == Start(t)
        s1 == Try(s0, <<"flush_chain", NETINJECT_INPUT_CHAIN>>,
                  ipt_flush_chain(s0.fw, FILTER_TABLE, NETINJECT_INPUT_CHAIN,
                                  FaultAt(f, s0)))
        s2 == Try(s1, <<"flush_chain", NETINJECT_OUTPUT_CHAIN>>,
                  ipt_flush_chain(s1.fw, FILTER_TABLE, NETINJECT_OUTPUT_CHAIN,
                                  FaultAt(f, s1)))
    IN  s2

\* Variant of cleanup that deletes each chain before the hook that targets it.
Netinject_cleanup_chain_first(t, f) ==
    LET s0 == Start(t)
        s1 == Try(s0, <<"delete_chain", NETINJECT_INPUT_CHAIN>>,
                  delete_chain(s0.fw, FILTER_TABLE, NETINJECT_INPUT_CHAIN,
                               FaultAt(f, s0)))
        s2 == Try(s1, <<"delete", FILTER_INPUT_CHAIN, HookIn>>,
                  delete(s1.fw, FILTER_TABLE, FILTER_INPUT_CHAIN,
                         JumpRule(NETINJECT_INPUT_CHAIN), FaultAt(f, s1)))
        s3 == Try(s2, <<"delete_chain", NETINJECT_OUTPUT_CHAIN>>,
                  delete_chain(s2.fw, FILTER_TABLE, NETINJECT_OUTPUT_CHAIN,
                               FaultAt(f, s2)))
        s4 == Try(s3, <<"delete", FILTER_OUTPUT_CHAIN, HookOut>>,
                  delete(s3.fw, FILTER_TABLE, FILTER_OUTPUT_CHAIN,
                         JumpRule(NETINJECT_OUTPUT_CHAIN), FaultAt(f, s3)))
    IN  s4

\* Variant of cleanup that classifies its errors the way Netinject::new does.
Netinject_cleanup_mapped(t, f) ==
    LET s0 == Start(t)
        s1 == Try(s0, <<"delete", FILTER_INPUT_CHAIN, HookIn>>,
                  map_err(delete(s0.fw, FILTER_TABLE, FILTER_INPUT_CHAIN,
                                 JumpRule(NETINJECT_INPUT_CHAIN), FaultAt(f, s0))))
        s2 == Try(s1, <<"delete_chain", NETINJECT_INPUT_CHAIN>>,
                  map_err(delete_chain(s1.fw, FILTER_TABLE, NETINJECT_INPUT_CHAIN,
                                       FaultAt(f, s1))))
        s3 == Try(s2, <<"delete", FILTER_OUTPUT_CHAIN, HookOut>>,
                  map_err(delete(s2.fw, FILTER_TABLE, FILTER_OUTPUT_CHAIN,
                                 JumpRule(NETINJECT_OUTPUT_CHAIN), FaultAt(f, s2))))
        s4 == Try(s3, <<"delete_chain", NETINJECT_OUTPUT_CHAIN>>,
                  map_err(delete_chain(s3.fw, FILTER_TABLE, NETINJECT_OUTPUT_CHAIN,
                                       FaultAt(f, s3))))
    IN  s4

\* Netinject::cleanup
Netinject_cleanup(t, f) ==
    LET s0 == Start(t)
        s1 == Try(s0, <<"delete", FILTER_INPUT_CHAIN, HookIn>>,
                  delete(s0.fw, FILTER_TABLE, FILTER_INPUT_CHAIN,
                         JumpRule(NETINJECT_INPUT_CHAIN), FaultAt(f, s0)))
        s2 == Try(s1, <<"delete_chain", NETINJECT_INPUT_CHAIN>>,
                  delete_chain(s1.fw, FILTER_TABLE, NETINJECT_INPUT_CHAIN,
                               FaultAt(f, s1)))
        s3 == Try(s2, <<"delete", FILTER_OUTPUT_CHAIN, HookOut>>,
                  delete(s2.fw, FILTER_TABLE, FILTER_OUTPUT_CHAIN,
                         JumpRule(NETINJECT_OUTPUT_CHAIN), FaultAt(f, s2)))
        s4 == Try(s3, <<"delete_chain", NETINJECT_OUTPUT_CHAIN>>,
                  delete_chain(s3.fw, FILTER_TABLE, NETINJECT_OUTPUT_CHAIN,
                               FaultAt(f, s3)))
    IN  s4

----------------------------------------------------------------------------
(* The state machine of the manager's callers *)

\* the filter table with no user chain and empty built-in chains, which the
\* tests require before they start (assert_exists(&ipt, false))
CleanTable == [exists |-> {}, rules |-> [c \in ChainNames |-> <<>>]]

Call(o, a, s, f) ==
    [op |-> o, arg |-> a, res |-> s.res, calls |-> s.calls, fault |-> f]

NoCall == [op |-> "none", arg |-> <<>>, res |-> Ok, calls |-> <<>>, fault |-> NoPlan]

Init ==
    /\ fw = CleanTable
    /\ mgrs = 0
    /\ last = NoCall
    /\ pre = CleanTable

\* let n = Netinject::new(IPV4): a handle comes to life when it succeeds
Initialize(f) ==
    /\ mgrs < MaxMgrs
    /\ LET s == Netinject_new(fw, IPV4, f)
       IN  /\ fw' = s.fw
           /\ mgrs' = IF s.res = Ok THEN mgrs + 1 ELSE mgrs
           /\ last' = Call("initialize", <<>>, s, f)
    /\ pre' = fw

\* n.create(ident)
Create(ident, f) ==
    /\ mgrs > 0
    /\ LET s == Netinject_create(fw, ident, f)
       IN  /\ fw' = s.fw
           /\ last' = Call("create", <<ident>>, s, f)
    /\ pre' = fw
    /\ UNCHANGED mgrs

\* n.delete(ident)
Delete(ident, f) ==
    /\ mgrs > 0
    /\ LET s == Netinject_delete(fw, ident, f)
       IN  /\ fw' = s.fw
           /\ last' = Call("delete", <<ident>>, s, f)
    /\ pre' = fw
    /\ UNCHANGED mgrs

\* n.delete_all()
DeleteAll(f) ==
    /\ mgrs > 0
    /\ LET s == Netinject_delete_all(fw, f)
       IN  /\ fw' = s.fw
           /\ last' = Call("delete_all", <<>>, s, f)
    /\ pre' = fw
    /\ UNCHANGED mgrs

\* n.cleanup(): takes &self, the handle stays alive
Cleanup(f) ==
    /\ mgrs > 0
    /\ LET s == Netinject_cleanup(fw, f)
       IN  /\ fw' = s.fw
           /\ last' = Call("cleanup", <<>>, s, f)
    /\ pre' = fw
    /\ UNCHANGED mgrs

\* a Netinject value goes out of scope: there is no Drop impl, the table stays
DropHandle ==
    /\ mgrs > 0
    /\ mgrs' = mgrs - 1
    /\ last' = [NoCall EXCEPT !.op = "drop"]
    /\ pre' = fw
    /\ UNCHANGED fw

Next ==
    \/ \E f \in FaultPlans(5) : Initialize(f)
    \/ \E ident \in Ident, f \in FaultPlans(1) : Create(ident, f)
    \/ \E ident \in Ident, f \in FaultPlans(1) : Delete(ident, f)
    \/ \E f \in FaultPlans(2) : DeleteAll(f)
    \/ \E f \in FaultPlans(4) : Cleanup(f)
    \/ DropHandle

Spec == Init /\ [][Next]_vars

----------------------------------------------------------------------------
(* The state machine of the shim's callers: the four shim operations called  *)
(* on their own, as iptables_helpers.rs test_create_and_delete does.  The    *)
(* chains are the two user chains and the rules are the ones this repository *)
(* writes: each built-in chain's jump to its user chain, and the drop rules  *)
(* in the user chains.                                                       *)

DropRules == {rule(ident) : ident \in Ident}
ShimRules ==
    {<<FILTER_INPUT_CHAIN, HookIn>>, <<FILTER_OUTPUT_CHAIN, HookOut>>}
        \cup (ManagedChains \X DropRules)

ShimCall(o, a, r, ft) ==
    [op |-> "helpers::" \o o, arg |-> a, res |-> r.res, calls |-> <<<<o>> \o a>>,
     fault |-> [at |-> IF ft = NoFault THEN 0 ELSE 1, err |-> ft]]

CallNewChain(c, ft) ==
    /\ LET r == new_chain(fw, FILTER_TABLE, c, ft)
       IN  fw' = r.fw /\ last' = ShimCall("new_chain", <<c>>, r, ft)
    /\ pre' = fw
    /\ UNCHANGED mgrs

CallAppendUnique(c, r0, ft) ==
    /\ LET r == append_unique(fw, FILTER_TABLE, c, r0, ft)
       IN  fw' = r.fw /\ last' = ShimCall("append_unique", <<c, r0>>, r, ft)
    /\ pre' = fw
    /\ UNCHANGED mgrs

CallDelete(c, r0, ft) ==
    /\ LET r == delete(fw, FILTER_TABLE, c, r0, ft)
       IN  fw' = r.fw /\ last' = ShimCall("delete", <<c, r0>>, r, ft)
    /\ pre' = fw
    /\ UNCHANGED mgrs

CallDeleteChain(c, ft) ==
    /\ LET r == delete_chain(fw, FILTER_TABLE, c, ft)
       IN  fw' = r.fw /\ last' = ShimCall("delete_chain", <<c>>, r, ft)
    /\ pre' = fw
    /\ UNCHANGED mgrs

ShimNext ==
    \/ \E c \in ManagedChains, ft \in Faults : CallNewChain(c, ft)
    \/ \E cr \in ShimRules, ft \in Faults : CallAppendUnique(cr[1], cr[2], ft)
    \/ \E cr \in ShimRules, ft \in Faults : CallDelete(cr[1], cr[2], ft)
    \/ \E c \in ManagedChains, ft \in Faults : CallDeleteChain(c, ft)

ShimSpec == Init /\ [][ShimNext]_vars

\* Every caller at once: the manager's operations on any live handle and the
\* shim's operations on their own, in any order.
AllCallsNext == Next \/ ShimNext

AllCallsSpec == Init /\ [][AllCallsNext]_vars

----------------------------------------------------------------------------
(* The derivations on their own: Ident::rule and Ident::chain are pure, so   *)
(* they are applied to an identifier drawn at the start; the table plays no  *)
(* part.  DeriveSpec draws one identifier from all of them, PairSpec draws   *)
(* two.                                                                      *)

Given(a) == [op |-> "ident", arg |-> a, res |-> Ok, calls |-> <<>>, fault |-> NoPlan]

DeriveInit ==
    /\ fw = CleanTable
    /\ mgrs = 0
    /\ pre = CleanTable
    /\ \E ident \in IdentU16 : last = Given(<<ident>>)

\* ident.rule()
CallRule ==
    /\ last.op = "ident"
    /\ last' = [last EXCEPT !.op = "rule", !.res = rule(last.arg[1])]
    /\ UNCHANGED <<fw, mgrs, pre>>

\* ident.chain()
CallIdentChain ==
    /\ last.op = "ident"
    /\ last' = [last EXCEPT !.op = "chain", !.res = chain(last.arg[1])]
    /\ UNCHANGED <<fw, mgrs, pre>>

DeriveNext == CallRule \/ CallIdentChain

DeriveSpec == DeriveInit /\ [][DeriveNext]_vars

PairInit ==
    /\ fw = CleanTable
    /\ mgrs = 0
    /\ pre = CleanTable
    /\ \E a \in IdentPair, b \in IdentPair : last = Given(<<a, b>>)

\* (a.chain(), a.rule()) and (b.chain(), b.rule())
CallBoth ==
    /\ last.op = "ident"
    /\ last' = [last EXCEPT !.op = "both",
                            !.res = << <<chain(last.arg[1]), rule(last.arg[1])>>,
                                       <<chain(last.arg[2]), rule(last.arg[2])>> >>]
    /\ UNCHANGED <<fw, mgrs, pre>>

PairNext == CallBoth

PairSpec == PairInit /\ [][PairNext]_vars

----------------------------------------------------------------------------
(* Properties *)

HooksIn(t) == Occurrences(t.rules[FILTER_INPUT_CHAIN], HookIn)
HooksOut(t) == Occurrences(t.rules[FILTER_OUTPUT_CHAIN], HookOut)

\* what initialize is to establish
Installed(t) ==
    /\ ManagedChains \subseteq t.exists
    /\ HooksIn(t) = 1
    /\ HooksOut(t) = 1

\* what cleanup is to establish
Removed(t) ==
    /\ ManagedChains \cap t.exists = {}
    /\ HooksIn(t) = 0
    /\ HooksOut(t) = 0

ManagedEmpty(t) == \A c \in ManagedChains : t.rules[c] = <<>>

\* C1: an initialize that meets no engine fault succeeds from every state of
\* the chains and hooks, leaves both managed chains existing and exactly one
\* jump rule in INPUT and in OUTPUT, keeps the rules of the managed chains,
\* and changes nothing when all of that was in place already.
C1_InitializeConverges ==
    (last.op = "initialize" /\ last.fault = NoPlan) =>
        /\ last.res = Ok
        /\ Installed(fw)
        /\ \A c \in ManagedChains : fw.rules[c] = pre.rules[c]
        /\ Installed(pre) => fw = pre

\* the second of two initialize calls whose handles are both alive
C1_Witness ==
    /\ last.op = "initialize"
    /\ last.res = Ok
    /\ Installed(pre)
    /\ mgrs = 2

\* C2: whenever cleanup returns success, both jump rules and both managed
\* chains are absent.
C2_CleanupSuccessRemovesAll ==
    (last.op = "cleanup" /\ last.res = Ok) => Removed(fw)

\* C3: a cleanup that meets no engine fault, started with the managed chains
\* empty or absent and the hooks present or absent, succeeds and leaves chains
\* and hooks absent; when they were absent already it changes nothing.
C3_CleanupIdempotent ==
    (last.op = "cleanup" /\ last.fault = NoPlan /\ ManagedEmpty(pre)) =>
        /\ last.res = Ok
        /\ Removed(fw)
        /\ Removed(pre) => fw = pre

\* a cleanup after everything was removed, with two handles alive
C3_Witness ==
    /\ last.op = "cleanup"
    /\ last.res = Ok
    /\ Removed(pre)
    /\ mgrs = 2

\* an error of the engine as the engine returned it (an IPTResult error)
IsEngineError(r) == r.kind \in {"BadExitStatus", "Other"}

\* C7: create for an identifier whose rule is in its chain already returns an
\* engine error (the engine's "rule exists" error when nothing else fails)
\* and leaves the one copy; delete for an identifier whose rule is not there
\* returns an engine error (exit status 1 when nothing else fails) and leaves
\* the table unchanged.
C7_CreateDeleteNotIdempotent ==
    /\ last.op = "create" =>
         LET id == last.arg[1]
         IN  ipt_exists(pre, FILTER_TABLE, chain(id), rule(id)) =>
               /\ IsEngineError(last.res)
               /\ last.fault = NoPlan => last.res = Other(RULE_EXISTS)
               /\ fw = pre
               /\ Occurrences(fw.rules[chain(id)], rule(id)) = 1
    /\ last.op = "delete" =>
         LET id == last.arg[1]
         IN  ~ipt_exists(pre, FILTER_TABLE, chain(id), rule(id)) =>
               /\ IsEngineError(last.res)
               /\ (last.fault = NoPlan /\ chain(id) \in pre.exists)
                     => last.res = BadExitStatus(1)
               /\ fw = pre

\* a create that found its rule in the chain
C7_Witness ==
    /\ last.op = "create"
    /\ last.res = Other(RULE_EXISTS)
    /\ Occurrences(fw.rules[chain(last.arg[1])], rule(last.arg[1])) = 1

\* the table with the rule of id taken out of the chain of id
WithoutRule(t, id) ==
    [t EXCEPT !.rules[chain(id)] = SelectSeq(@, LAMBDA x : x # rule(id))]

\* C8 (create): a successful create(id) appends the rule text of id to the
\* chain of id and changes nothing else; the rule is then there once.
C8_CreateAdds ==
    (last.op = "create" /\ last.res = Ok) =>
        LET id == last.arg[1]
        IN  /\ fw = [pre EXCEPT !.rules[chain(id)] = Append(@, rule(id))]
            /\ Occurrences(fw.rules[chain(id)], rule(id)) = 1

\* C8 (delete after create): when delete(id) follows create(id), a successful
\* delete leaves the rule of id absent; every other rule, the existence of the
\* chains and the hooks are as before the create; and when both calls
\* succeeded the table is the table before the create.
C8_DeleteAfterCreate ==
    (last.op = "create" /\ last'.op = "delete" /\ last'.arg = last.arg) =>
        LET id == last.arg[1]
        IN  /\ WithoutRule(fw', id) = WithoutRule(pre, id)
            /\ last'.res = Ok => ~ipt_exists(fw', FILTER_TABLE, chain(id), rule(id))
            /\ (last.res = Ok /\ last'.res = Ok) => fw' = pre

\* C8: rule round trip
C8_RoundTrip == [](C8_CreateAdds) /\ [][C8_DeleteAfterCreate]_vars

\* a successful delete of the rule a create appended last to a chain that
\* holds another rule
C8_Witness ==
    /\ last.op = "delete"
    /\ last.res = Ok
    /\ LET id == last.arg[1]
           before == pre.rules[chain(id)]
       IN  /\ Len(before) = 2
           /\ before[2] = rule(id)
           /\ fw.rules[chain(id)] = <<before[1]>>

\* C9: create and delete for an Inbound identifier leave NETINJECT_OUTPUT as
\* it was, for an Outbound identifier NETINJECT_INPUT, and both leave INPUT
\* and OUTPUT as they were, whatever the call returns.
C9_DirectionalIsolation ==
    last.op \in {"create", "delete"} =>
        LET id == last.arg[1]
            other == IF id.direction = "Inbound" THEN NETINJECT_OUTPUT_CHAIN
                                                 ELSE NETINJECT_INPUT_CHAIN
        IN  /\ fw.rules[other] = pre.rules[other]
            /\ other \in fw.exists <=> other \in pre.exists
            /\ \A b \in BuiltinChains : fw.rules[b] = pre.rules[b]

\* an Outbound create that succeeded while NETINJECT_INPUT held rules
C9_Witness ==
    /\ last.op = "create"
    /\ last.res = Ok
    /\ last.arg[1].direction = "Outbound"
    /\ Len(fw.rules[NETINJECT_INPUT_CHAIN]) = 2
    /\ Len(fw.rules[NETINJECT_OUTPUT_CHAIN]) = 1

\* C10: after a successful delete_all both managed chains are empty and still
\* exist, and the hooks in INPUT and OUTPUT are as they were before the call
\* (still there when they were there).
C10_DeleteAllEmpties ==
    (last.op = "delete_all" /\ last.res = Ok) =>
        /\ ManagedEmpty(fw)
        /\ ManagedChains \subseteq fw.exists
        /\ fw.exists = pre.exists
        /\ \A b \in BuiltinChains : fw.rules[b] = pre.rules[b]
        /\ Installed(pre) => Installed(fw)

\* a delete_all that removed rules of both directions after initialize
C10_Witness ==
    /\ last.op = "delete_all"
    /\ last.res = Ok
    /\ Installed(pre)
    /\ Len(pre.rules[NETINJECT_INPUT_CHAIN]) = 2
    /\ Len(pre.rules[NETINJECT_OUTPUT_CHAIN]) = 2
    /\ Installed(fw)

----------------------------------------------------------------------------
(* Properties of the shim, under ShimSpec *)

\* C4 (one call): a new_chain that meets no engine fault succeeds and the
\* chain exists afterwards, unchanged when it existed before; an
\* append_unique of a rule that is in the chain succeeds and changes nothing;
\* after a successful append_unique the chain holds the rule exactly once.
C4_Converges ==
    /\ (last.op = "helpers::new_chain" /\ last.fault = NoPlan) =>
         /\ last.res = Ok
         /\ ipt_chain_exists(fw, FILTER_TABLE, last.arg[1])
         /\ ipt_chain_exists(pre, FILTER_TABLE, last.arg[1]) => fw = pre
    /\ last.op = "helpers::append_unique" =>
         /\ (last.fault = NoPlan
               /\ ipt_exists(pre, FILTER_TABLE, last.arg[1], last.arg[2]))
              => (last.res = Ok /\ fw = pre)
         /\ last.res = Ok
              => Occurrences(fw.rules[last.arg[1]], last.arg[2]) = 1

\* C4 (two calls in a row): the same create-side call repeated right after it
\* succeeded succeeds again and changes nothing.
C4_Twice ==
    (/\ last.op \in {"helpers::new_chain", "helpers::append_unique"}
     /\ last.res = Ok
     /\ last'.op = last.op
     /\ last'.arg = last.arg
     /\ last'.fault = NoPlan) => (last'.res = Ok /\ fw' = fw)

\* C4: the create side of the shim is idempotent
C4_ShimCreateIdempotent == [](C4_Converges) /\ [][C4_Twice]_vars

\* a new_chain on a user chain that existed, answered with success
C4_Witness ==
    /\ last.op = "helpers::new_chain"
    /\ last.fault = NoPlan
    /\ last.arg[1] \in pre.exists
    /\ last.res = Ok
    /\ fw = pre

C6_DeleteChainSuccessMeansAbsent ==
    (last.op = "helpers::delete_chain" /\ last.res = Ok) =>
        ~ipt_chain_exists(fw, FILTER_TABLE, last.arg[1])

----------------------------------------------------------------------------
(* Error classification, under Spec *)

\* C11: an initialize whose engine call at any step (handle acquisition,
\* chain creation, hook insertion) fails with exit status 4 returns
\* PermissionDenied; with any other failure it returns the generic engine
\* error that carries the failure; and it returns an error only then.
C11_InitializeClassifies ==
    last.op = "initialize" =>
        /\ last.fault = NoPlan <=> last.res = Ok
        /\ last.fault.err = BadExitStatus(4) => last.res = PermissionDenied
        /\ (last.fault # NoPlan /\ last.fault.err # BadExitStatus(4)) =>
              /\ last.res.kind = "IPTError"
              /\ last.res.cause = last.fault.err.kind
              /\ last.res.code = last.fault.err.code
              /\ last.res.msg = last.fault.err.msg

\* a hook insertion that failed with exit status 4
C11_Witness ==
    /\ last.op = "initialize"
    /\ last.fault = [at |-> 3, err |-> BadExitStatus(4)]
    /\ last.calls[3] = <<"append_unique", FILTER_INPUT_CHAIN, HookIn>>
    /\ last.res = PermissionDenied

\* C12 as stated: PermissionDenied comes only from initialize and only from
\* a failed handle acquisition (its first engine call).
C12_OnlyHandleAcquisition ==
    last.res = PermissionDenied =>
        (last.op = "initialize" /\ last.fault.at = 1)

\* C12 as amended: PermissionDenied comes only from initialize, from
\* whichever of its engine calls failed with exit status 4; create, delete,
\* delete_all and cleanup return that failure as the engine gave it.
C12_OnlyInitialize ==
    /\ last.res = PermissionDenied =>
          /\ last.op = "initialize"
          /\ last.fault.err = BadExitStatus(4)
          /\ Len(last.calls) = last.fault.at
    /\ (/\ last.op \in {"create", "delete", "delete_all", "cleanup"}
        /\ last.fault.err = BadExitStatus(4)
        /\ Len(last.calls) = last.fault.at) => last.res = BadExitStatus(4)

\* a cleanup whose engine call failed with exit status 4
C12_Witness ==
    /\ last.op = "cleanup"
    /\ last.fault = [at |-> 2, err |-> BadExitStatus(4)]
    /\ last.res = BadExitStatus(4)

----------------------------------------------------------------------------
(* Netinject::new and Netinject::cleanup one statement at a time: the k-th   *)
(* engine call of each, with the call it issues.                             *)

\* lib.rs 80, 83, 86-92, 95, 98-104
new_step(k, t, is_ipv6, ft) ==
    CASE k = 1 -> map_err(iptables_new(t, is_ipv6, ft))
      [] k = 2 -> map_err(new_chain(t, FILTER_TABLE, NETINJECT_INPUT_CHAIN, ft))
      [] k = 3 -> map_err(append_unique(t, FILTER_TABLE, FILTER_INPUT_CHAIN,
                                        JumpRule(NETINJECT_INPUT_CHAIN), ft))
      [] k = 4 -> map_err(new_chain(t, FILTER_TABLE, NETINJECT_OUTPUT_CHAIN, ft))
      [] k = 5 -> map_err(append_unique(t, FILTER_TABLE, FILTER_OUTPUT_CHAIN,
                                        JumpRule(NETINJECT_OUTPUT_CHAIN), ft))

new_call(k) ==
    CASE k = 1 -> <<"new">>
      [] k = 2 -> <<"new_chain", NETINJECT_INPUT_CHAIN>>
      [] k = 3 -> <<"append_unique", FILTER_INPUT_CHAIN, HookIn>>
      [] k = 4 -> <<"new_chain", NETINJECT_OUTPUT_CHAIN>>
      [] k = 5 -> <<"append_unique", FILTER_OUTPUT_CHAIN, HookOut>>

\* lib.rs 129-134, 135, 136-141, 142
cleanup_step(k, t, ft) ==
    CASE k = 1 -> delete(t, FILTER_TABLE, FILTER_INPUT_CHAIN,
                         JumpRule(NETINJECT_INPUT_CHAIN), ft)
      [] k = 2 -> delete_chain(t, FILTER_TABLE, NETINJECT_INPUT_CHAIN, ft)
      [] k = 3 -> delete(t, FILTER_TABLE, FILTER_OUTPUT_CHAIN,
                         JumpRule(NETINJECT_OUTPUT_CHAIN), ft)
      [] k = 4 -> delete_chain(t, FILTER_TABLE, NETINJECT_OUTPUT_CHAIN, ft)

cleanup_call(k) ==
    CASE k = 1 -> <<"delete", FILTER_INPUT_CHAIN, HookIn>>
      [] k = 2 -> <<"delete_chain", NETINJECT_INPUT_CHAIN>>
      [] k = 3 -> <<"delete", FILTER_OUTPUT_CHAIN, HookOut>>
      [] k = 4 -> <<"delete_chain", NETINJECT_OUTPUT_CHAIN>>

----------------------------------------------------------------------------
(* Sequencing of initialize and cleanup, under Spec *)

\* the table after the first n statements, none of them failing
RECURSIVE AfterNew(_, _)
AfterNew(t, n) ==
    IF n = 0 THEN t ELSE new_step(n, AfterNew(t, n - 1), IPV4, NoFault).fw

RECURSIVE AfterCleanup(_, _)
AfterCleanup(t, n) ==
    IF n = 0 THEN t ELSE cleanup_step(n, AfterCleanup(t, n - 1), NoFault).fw

SameSide(a, b, c, builtin) ==
    /\ c \in a.exists <=> c \in b.exists
    /\ a.rules[c] = b.rules[c]
    /\ a.rules[builtin] = b.rules[builtin]

\* C13 (initialize): when the k-th engine call fails with a failure the shim
\* does not absorb, initialize returns that failure (classified), has issued
\* calls 1..k and no other, and the table is what calls 1..k-1 made of it:
\* the chains and hooks of the earlier steps are in place, those of the later
\* steps are as before the call.
C13_InitializeStops ==
    (last.op = "initialize" /\ last.fault # NoPlan) =>
        LET k == last.fault.at
        IN  /\ last.res = ipt_to_netinject_err(last.fault.err)
            /\ last.calls = [i \in 1..k |-> new_call(i)]
            /\ fw = AfterNew(pre, k - 1)
            /\ k >= 3 => NETINJECT_INPUT_CHAIN \in fw.exists
            /\ k >= 4 => HooksIn(fw) = 1
            /\ k >= 5 => NETINJECT_OUTPUT_CHAIN \in fw.exists
            /\ k <= 2 => fw = pre
            /\ k <= 4 => SameSide(fw, pre, NETINJECT_OUTPUT_CHAIN, FILTER_OUTPUT_CHAIN)
            /\ HooksOut(fw) = HooksOut(pre)

\* C13 (cleanup): the same for cleanup, whose errors are not classified.
C13_CleanupStops ==
    (last.op = "cleanup" /\ last.fault # NoPlan) =>
        LET k == last.fault.at
        IN  /\ last.res = last.fault.err
            /\ last.calls = [i \in 1..k |-> cleanup_call(i)]
            /\ fw = AfterCleanup(pre, k - 1)
            /\ k >= 2 => HooksIn(fw) = 0
            /\ k >= 4 => HooksOut(fw) = 0
            /\ k = 1 => fw = pre
            /\ k <= 2 => SameSide(fw, pre, NETINJECT_OUTPUT_CHAIN, FILTER_OUTPUT_CHAIN)
            /\ (NETINJECT_OUTPUT_CHAIN \in fw.exists)
                  <=> (NETINJECT_OUTPUT_CHAIN \in pre.exists)

\* C13: initialize and cleanup stop at the first failure and undo nothing
C13_StopAtFirstFailure == C13_InitializeStops /\ C13_CleanupStops

\* an initialize on a clean table whose second chain creation failed: the
\* inbound chain and hook are left in place, nothing of the outbound side
C13_Witness ==
    /\ last.op = "initialize"
    /\ last.fault = [at |-> 4, err |-> BadExitStatus(3)]
    /\ pre = CleanTable
    /\ fw.exists = {NETINJECT_INPUT_CHAIN}
    /\ HooksIn(fw) = 1
    /\ HooksOut(fw) = 0
    /\ Len(last.calls) = 4
    /\ last.res = IPTError(BadExitStatus(3))

\* the table a recorded shim call leaves when it meets no fault
ReplayCall(t, c) ==
    CASE c[1] = "new" -> t
      [] c[1] = "new_chain" -> new_chain(t, FILTER_TABLE, c[2], NoFault).fw
      [] c[1] = "append_unique" -> append_unique(t, FILTER_TABLE, c[2], c[3], NoFault).fw
      [] c[1] = "delete" -> delete(t, FILTER_TABLE, c[2], c[3], NoFault).fw
      [] c[1] = "delete_chain" -> delete_chain(t, FILTER_TABLE, c[2], NoFault).fw

\* the table when the call at position j is issued
RECURSIVE TableAt(_, _, _)
TableAt(t, cs, j) ==
    IF j <= 1 THEN t ELSE ReplayCall(TableAt(t, cs, j - 1), cs[j - 1])

\* the managed chain a call is about
CallChain(c) ==
    CASE c[1] = "new" -> ""
      [] c[1] \in {"new_chain", "delete_chain"} -> c[2]
      [] OTHER -> TargetChain(c[3])

\* C16: in initialize every hook insertion comes after the creation of the
\* chain it targets; in cleanup every chain deletion comes after the deletion
\* of the hook that targets it, and is issued when no rule references the
\* chain; in both, every call about the inbound pair comes before every call
\* about the outbound pair; a run that meets no fault issues all its calls.
C16_LifecycleOrder ==
    last.op \in {"initialize", "cleanup"} =>
        LET cs == last.calls
            n == Len(cs)
        IN  /\ \A j \in 1..n : cs[j][1] = "append_unique" =>
                  \E i \in 1..(j - 1) : cs[i] = <<"new_chain", CallChain(cs[j])>>
            /\ \A j \in 1..n : cs[j][1] = "delete_chain" =>
                  /\ \E i \in 1..(j - 1) :
                        cs[i][1] = "delete" /\ cs[i][3] = JumpRule(cs[j][2])
                  /\ References(TableAt(pre, cs, j), cs[j][2]) = 0
            /\ \A i, j \in 1..n :
                  (/\ CallChain(cs[i]) = NETINJECT_INPUT_CHAIN
                   /\ CallChain(cs[j]) = NETINJECT_OUTPUT_CHAIN) => i < j
            /\ last.fault = NoPlan =>
                  /\ n = IF last.op = "initialize" THEN 5 ELSE 4
                  /\ \A c \in ManagedChains : \E j \in 1..n : CallChain(cs[j]) = c

\* a complete cleanup of an installed table
C16_Witness ==
    /\ last.op = "cleanup"
    /\ last.fault = NoPlan
    /\ Installed(pre)
    /\ ManagedEmpty(pre)
    /\ Len(last.calls) = 4
    /\ Removed(fw)

----------------------------------------------------------------------------
(* A handle without its chains, under Spec *)

\* C18: with both managed chains absent, create, delete and delete_all on a
\* live handle return an engine error (exit status 1 when nothing else fails)
\* and leave the table as it was; a managed chain or a hook that was absent
\* before a call and is present after it was put there by initialize.
C18_HandleWithoutChains ==
    /\ (/\ last.op \in {"create", "delete", "delete_all"}
        /\ ManagedChains \cap pre.exists = {}) =>
          /\ IsEngineError(last.res)
          /\ last.fault = NoPlan => last.res = BadExitStatus(1)
          /\ fw = pre
    /\ (\/ \E c \in ManagedChains : c \in fw.exists /\ c \notin pre.exists
        \/ HooksIn(fw) > HooksIn(pre)
        \/ HooksOut(fw) > HooksOut(pre)) => last.op = "initialize"

\* a create on a handle that outlived a cleanup
C18_Witness ==
    /\ last.op = "create"
    /\ mgrs > 0
    /\ Removed(pre)
    /\ last.res = BadExitStatus(1)
    /\ Removed(fw)

----------------------------------------------------------------------------
(* What the shim absorbs, under ShimSpec *)

\* the failures each shim operation turns into success
Sentinels(o) ==
    CASE o = "helpers::new_chain"     -> {BadExitStatus(1)}
      [] o = "helpers::append_unique" -> {Other(RULE_EXISTS)}
      [] o = "helpers::delete"        -> {BadExitStatus(1), BadExitStatus(2)}
      [] o = "helpers::delete_chain"  -> {BadExitStatus(1)}

\* the one engine call behind the last shim call, made on the table before it
EngineCall ==
    CASE last.op = "helpers::new_chain" ->
           ipt_new_chain(pre, FILTER_TABLE, last.arg[1], last.fault.err)
      [] last.op = "helpers::append_unique" ->
           ipt_append_unique(pre, FILTER_TABLE, last.arg[1], last.arg[2], last.fault.err)
      [] last.op = "helpers::delete" ->
           ipt_delete(pre, FILTER_TABLE, last.arg[1], last.arg[2], last.fault.err)
      [] last.op = "helpers::delete_chain" ->
           ipt_delete_chain(pre, FILTER_TABLE, last.arg[1], last.fault.err)

ShimOps ==
    {"helpers::new_chain", "helpers::append_unique", "helpers::delete",
     "helpers::delete_chain"}

\* C15: a shim call issues one engine call; the table after it is the table
\* that one call leaves; the result is success when the engine succeeded or
\* failed with one of the operation's own sentinels, and otherwise the
\* engine's failure itself, after which the table is as before.
C15_ShimAbsorbsOnlySentinels ==
    last.op \in ShimOps =>
        /\ Len(last.calls) = 1
        /\ fw = EngineCall.fw
        /\ last.res = IF EngineCall.res \in Sentinels(last.op) THEN Ok
                      ELSE EngineCall.res
        /\ last.res # Ok => fw = pre
        /\ last.fault.err # NoFault => last.res = last.fault.err

\* append_unique of a jump to a chain that does not exist: exit status 2 is
\* not its sentinel and comes back as it is
C15_Witness ==
    /\ last.op = "helpers::append_unique"
    /\ last.arg = <<FILTER_INPUT_CHAIN, HookIn>>
    /\ NETINJECT_INPUT_CHAIN \notin pre.exists
    /\ last.fault.err = NoFault
    /\ last.res = BadExitStatus(2)
    /\ fw = pre

----------------------------------------------------------------------------
(* Rule text and chain of an identifier, under DeriveSpec and PairSpec *)

\* the decimal text of n < 100000, digit by digit from its place values
Pow10(k) == CASE k = 0 -> 1 [] k = 1 -> 10 [] k = 2 -> 100 [] k = 3 -> 1000 [] k = 4 -> 10000
NumDigits(n) ==
    CASE n < 10 -> 1 [] n >= 10 /\ n < 100 -> 2 [] n >= 100 /\ n < 1000 -> 3
      [] n >= 1000 /\ n < 10000 -> 4 [] n >= 10000 -> 5
Decimal(n) ==
    LET d == NumDigits(n)
        At(i) == Digit[((n \div Pow10(d - i)) % 10) + 1]
    IN  CASE d = 1 -> At(1)
          [] d = 2 -> At(1) \o At(2)
          [] d = 3 -> At(1) \o At(2) \o At(3)
          [] d = 4 -> At(1) \o At(2) \o At(3) \o At(4)
          [] d = 5 -> At(1) \o At(2) \o At(3) \o At(4) \o At(5)

Token(p) == CASE p = "TCP" -> "tcp" [] p = "UDP" -> "udp"

\* C14: for every identifier the derived rule text is
\* "-p <tcp|udp> --dport <port in decimal> -j DROP" with the lowercase protocol
\* token, and the derived chain is NETINJECT_INPUT for Inbound and
\* NETINJECT_OUTPUT for Outbound; both depend on the identifier alone.
C14_Derivation ==
    /\ last.op = "rule" =>
          last.res = "-p " \o Token(last.arg[1].protocol) \o " --dport "
                         \o Decimal(last.arg[1].port) \o " -j DROP"
    /\ last.op = "chain" =>
          /\ last.arg[1].direction = "Inbound" => last.res = "NETINJECT_INPUT"
          /\ last.arg[1].direction = "Outbound" => last.res = "NETINJECT_OUTPUT"

\* the rule text of the largest port
C14_Witness ==
    /\ last.op = "rule"
    /\ last.arg[1] = [protocol |-> "UDP", port |-> MaxPort, direction |-> "Outbound"]
    /\ last.res = "-p udp --dport 65535 -j DROP"

\* C20: two identifiers that differ in protocol, port or direction never
\* derive the same (chain, rule text) pair.
C20_Injective ==
    (last.op = "both" /\ last.arg[1] # last.arg[2]) => last.res[1] # last.res[2]

\* two identifiers that differ only in the port, one port's text a prefix of
\* the other's
C20_Witness ==
    /\ last.op = "both"
    /\ last.arg[1] = [protocol |-> "TCP", port |-> 555, direction |-> "Inbound"]
    /\ last.arg[2] = [protocol |-> "TCP", port |-> 5555, direction |-> "Inbound"]
    /\ last.res[1][1] = last.res[2][1]
    /\ last.res[1][2] # last.res[2][2]

----------------------------------------------------------------------------
(* Two callers inside Netinject::new at once.  Each caller runs the five     *)
(* statements of Netinject::new in order; between two statements of one      *)
(* caller the other may run any number of its own.  An engine call is one    *)
(* atomic step.  Here `last` holds one call record per caller, `pre` is the  *)
(* table the callers found, and `mgrs` counts the handles returned.          *)

\* the two values of test_init_and_cleanup, made by two callers
Callers == {"n1", "n2"}

\* one side of a table the callers can find: the chain absent, or present
\* with or without its hook, holding no rule or one drop rule
SideStates(c, builtin, r) ==
    {[exists |-> {}, hook |-> <<>>, rules |-> <<>>]}
        \cup [exists : {{c}}, hook : {<<>>, <<JumpRule(c)>>}, rules : {<<>>, <<r>>}]

StartTables ==
    {[exists |-> i.exists \cup o.exists,
      rules  |-> [c \in ChainNames |->
                    CASE c = FILTER_INPUT_CHAIN     -> i.hook
                      [] c = FILTER_OUTPUT_CHAIN    -> o.hook
                      [] c = NETINJECT_INPUT_CHAIN  -> i.rules
                      [] c = NETINJECT_OUTPUT_CHAIN -> o.rules]] :
        i \in SideStates(NETINJECT_INPUT_CHAIN, FILTER_INPUT_CHAIN,
                         rule([protocol |-> "TCP", port |-> 5555, direction |-> "Inbound"])),
        o \in SideStates(NETINJECT_OUTPUT_CHAIN, FILTER_OUTPUT_CHAIN,
                         rule([protocol |-> "TCP", port |-> 5555, direction |-> "Outbound"]))}

NotStarted == [op |-> "none", arg |-> <<>>, res |-> Ok, calls |-> <<>>,
               fault |-> NoPlan, overlap |-> FALSE]

\* the caller is between two statements of Netinject::new
InProgress(n) ==
    last[n].op = "initialize" /\ last[n].res = Ok /\ Len(last[n].calls) < 5

\* Netinject::new has returned to the caller
Returned(n) ==
    last[n].op = "initialize" /\ (last[n].res # Ok \/ Len(last[n].calls) = 5)

InterleaveInit ==
    /\ fw \in StartTables
    /\ pre = fw
    /\ mgrs = 0
    /\ last = [n \in Callers |-> NotStarted]

\* caller n runs its next statement of Netinject::new; ? returns at a failure
NewStep(n, ft) ==
    /\ ~Returned(n)
    /\ LET k == Len(last[n].calls) + 1
           r == new_step(k, fw, IPV4, ft)
       IN  /\ fw' = r.fw
           /\ last' = [last EXCEPT ![n] =
                 [op |-> "initialize", arg |-> <<>>, res |-> r.res,
                  calls |-> Append(last[n].calls, new_call(k)),
                  fault |-> IF ft = NoFault THEN NoPlan ELSE [at |-> k, err |-> ft],
                  overlap |-> last[n].overlap
                                \/ \E m \in Callers \ {n} : InProgress(m)]]
           /\ mgrs' = IF k = 5 /\ r.res = Ok THEN mgrs + 1 ELSE mgrs
    /\ UNCHANGED pre

InterleaveNext == \E n \in Callers, ft \in Faults : NewStep(n, ft)

InterleaveSpec == InterleaveInit /\ [][InterleaveNext]_vars

\* C19: with two callers inside initialize at once, their engine calls
\* interleaved in any order, a call that no engine fault hits fails at no
\* statement and returns success; when both have returned success the table
\* has both managed chains and exactly one hook in each of INPUT and OUTPUT,
\* and the rules in the managed chains are as the callers found them.
C19_InterleavedInitialize ==
    /\ \A n \in Callers : last[n].fault = NoPlan => last[n].res = Ok
    /\ (\A n \in Callers : Returned(n) /\ last[n].res = Ok) =>
          /\ Installed(fw)
          /\ mgrs = Cardinality(Callers)
          /\ \A c \in ManagedChains : c \in pre.exists => fw.rules[c] = pre.rules[c]

\* both callers returned success from a clean table, each having run a
\* statement while the other was between two of its own
C19_Witness ==
    /\ pre = CleanTable
    /\ \A n \in Callers :
          Returned(n) /\ last[n].res = Ok /\ last[n].overlap /\ last[n].fault = NoPlan
    /\ Installed(fw)

----------------------------------------------------------------------------
(* Hooks and their chains, under AllCallsSpec *)

=============================================================================
